---- MODULE Spec2Model ----
(***************************************************************************)
(* Realtime team scores: the scores table, the score_actions log and the   *)
(* five RPC functions of supabase/schema.sql (increment_team,              *)
(* decrement_team, reset_team, reset_all, undo_last_action), each run as   *)
(* one READ COMMITTED transaction by one of several database sessions.     *)
(*                                                                         *)
(* A transaction's writes become visible to the others at its commit, and  *)
(* its row locks (SELECT ... FOR UPDATE) are held until then; so each      *)
(* function is cut at the statements where it reads committed data or      *)
(* waits for a row lock, and its UPDATE/INSERT statements are applied in   *)
(* the step that commits.  NOW() is the transaction's start time.          *)
(***************************************************************************)
EXTENDS Integers, Sequences, FiniteSets, TLC

VARIABLES
    scores,         \* table scores: team -> score (committed)
    score_actions,  \* table score_actions: committed rows, a row's id is its index
    now,            \* the database clock, in seconds
    pc,             \* per session: the statement its running call is at
    call,           \* per session: the call it runs (function, arguments, NOW())
    txn,            \* per session: the running function's local variables
    score_lock,     \* row locks on scores: team -> holding session, 0 if free
    action_locks,   \* row locks on score_actions: session -> ids it holds
    result,         \* the JSON returned by the call that ended last
    ncalls,         \* per client: the number of calls it has begun so far
    page_scores,    \* the page's state 'scores': team -> score, NULL if absent
    page_actions,   \* the page's state 'actions': the rows of its history list
    fetch,          \* fetchInitialData: the await it is at, and the reply in flight
    subscribed,     \* the page's realtime channels have been joined
    channel,        \* realtime payloads sent to the page and not yet handled
    wal_pos,        \* the number of log rows whose changes realtime has broadcast
    dropped         \* the number of changes broadcast before the page had joined

(* The state of the page and of the realtime service. *)
page_vars == <<page_scores, page_actions, fetch, subscribed, channel, wal_pos, dropped>>

vars == <<scores, score_actions, now, pc, call, txn, score_lock, action_locks,
          result, ncalls, page_vars>>

----------------------------------------------------------------------------
(* Bounds of the model *)

MaxCalls == 3
MaxTime == 90
MaxRateCalls == 6
MaxRateTime == 10
MaxLimitedCalls == 7
MaxScenarioCalls == 4
MaxScenarioTime == 2
MaxLockCalls == 4
MaxWindowCalls == 5
MaxWindowTime == 10

(* Program constants *)

rate_limit_max == 5
rate_limit_window == 10
v_undo_window == 60
AmountMin == 1
AmountMax == 100

Teams == {"blue", "green", "yellow", "red"}

AllClients == {"c1", "c2", "c3"}

NULL == -1
NoTeam == "null"

(* The database sessions that can run a call at the same time *)
Procs == {1, 2, 3}

GREATEST(a, b) == IF a >= b THEN a ELSE b
LEAST(a, b) == IF a <= b THEN a ELSE b

----------------------------------------------------------------------------
(* The rows and the JSON results *)

ActionRowOfFirstTeam(team, delta, prev, new, client, type, reverts, at) ==
    [team |-> "blue", delta |-> delta, prev_score |-> prev, new_score |-> new,
     client_id |-> client, action_type |-> type, reverts_action_id |-> reverts,
     undone |-> FALSE, undone_at |-> NULL, created_at |-> at]

ActionRow(team, delta, prev, new, client, type, reverts, at) ==
    [team |-> team, delta |-> delta, prev_score |-> prev, new_score |-> new,
     client_id |-> client, action_type |-> type, reverts_action_id |-> reverts,
     undone |-> FALSE, undone_at |-> NULL, created_at |-> at]

NoResult ==
    [success |-> FALSE, error |-> "", message |-> "", team |-> NoTeam,
     prev_score |-> NULL, new_score |-> NULL, action_id |-> NULL,
     teams_reset |-> NULL, reverted_action_id |-> NULL, undo_action_id |-> NULL]

ErrRateLimited == "Rate limited. Please wait a few seconds."
ErrTeamNotFound == "Team not found"
ErrAlreadyAtZero == "Score is already at 0"
ErrNoUndoable == "No undoable action found (must be within 60 seconds)"
ErrDeadlock == "deadlock detected"
MsgAlreadyZero == "Score is already 0"

SuccessWithError(err) == [NoResult EXCEPT !.success = TRUE, !.error = err]

(* json_build_object('success', false, 'error', ...) *)
Failure(err) == [NoResult EXCEPT !.error = err]

Success(team, prev, new, id) ==
    [NoResult EXCEPT !.success = TRUE, !.team = team, !.prev_score = prev,
                     !.new_score = new, !.action_id = id]

NoCall == [op |-> "none", client |-> "", team |-> NoTeam, amount |-> 0, tnow |-> 0]

NoTxn == [v_prev_score |-> NULL, v_action |-> 0, cands |-> <<>>, rows |-> <<>>,
          got |-> <<>>]

----------------------------------------------------------------------------
(* check_rate_limit: TRUE when the client is rate-limited *)

RecentActionsButUndo(p_client_id, tnow) ==
    {i \in DOMAIN score_actions :
        /\ score_actions[i].client_id = p_client_id
        /\ score_actions[i].action_type # "undo"
        /\ score_actions[i].created_at > tnow - rate_limit_window}

RecentActions(p_client_id, tnow) ==
    {i \in DOMAIN score_actions :
        /\ score_actions[i].client_id = p_client_id
        /\ score_actions[i].created_at > tnow - rate_limit_window}

CheckRateLimitOffByOne(p_client_id, tnow) ==
    Cardinality(RecentActions(p_client_id, tnow)) > rate_limit_max

check_rate_limit(p_client_id, tnow) ==
    Cardinality(RecentActions(p_client_id, tnow)) >= rate_limit_max

ClampAmountNoMinimum(p_amount) == LEAST(p_amount, AmountMax)

(* v_amount := GREATEST(1, LEAST(p_amount, 100)) *)
ClampAmount(p_amount) == GREATEST(AmountMin, LEAST(p_amount, AmountMax))

----------------------------------------------------------------------------
Init ==
    /\ scores = [t \in Teams |-> 0]
    /\ score_actions = <<>>
    /\ now = 0
    /\ pc = [p \in Procs |-> "idle"]
    /\ call = [p \in Procs |-> NoCall]
    /\ txn = [p \in Procs |-> NoTxn]
    /\ score_lock = [t \in Teams |-> 0]
    /\ action_locks = [p \in Procs |-> {}]
    /\ result = NoResult
    /\ ncalls = [c \in AllClients |-> 0]
    /\ page_scores = [t \in Teams |-> NULL]
    /\ page_actions = <<>>
    /\ fetch = [pc |-> "scores_query", data |-> <<>>]
    /\ subscribed = FALSE
    /\ channel = <<>>
    /\ wal_pos = 0
    /\ dropped = 0

(* COMMIT or ROLLBACK of session p: its row locks are released. *)
ReleasedScoreLocks(p) == [t \in Teams |-> IF score_lock[t] = p THEN 0 ELSE score_lock[t]]
ReleasedActionLocks(p) == [action_locks EXCEPT ![p] = {}]

(* The function returns r to its caller and its transaction ends; the session
   is free for the next call. *)
Finish(p, r) ==
    /\ pc' = [pc EXCEPT ![p] = "idle"]
    /\ call' = [call EXCEPT ![p] = NoCall]
    /\ result' = r
    /\ txn' = [txn EXCEPT ![p] = NoTxn]
    /\ score_lock' = ReleasedScoreLocks(p)
    /\ action_locks' = ReleasedActionLocks(p)

FirstStatement(op) ==
    CASE op = "reset_all" -> "scan"
      [] op = "undo" -> "select"
      [] OTHER -> "lock"

(* A session that runs no call begins one: the transaction starts (NOW() is
   fixed) and the function's first statement, the rate limit check, runs. *)
Begin(p, op, c, t, a) ==
    /\ pc[p] = "idle"
    /\ ncalls' = [ncalls EXCEPT ![c] = @ + 1]
    /\ IF check_rate_limit(c, now)
         THEN /\ result' = Failure(ErrRateLimited)
              /\ UNCHANGED <<pc, call>>
         ELSE /\ pc' = [pc EXCEPT ![p] = FirstStatement(op)]
              /\ call' = [call EXCEPT ![p] =
                     [op |-> op, client |-> c, team |-> t, amount |-> a, tnow |-> now]]
              /\ UNCHANGED result
    /\ UNCHANGED <<scores, score_actions, now, txn, score_lock, action_locks>>
    /\ UNCHANGED page_vars

----------------------------------------------------------------------------
(* SELECT score ... FROM scores WHERE team = ... FOR UPDATE *)

NoRowLock(p, t) == TRUE

(* The row of team t can be locked by session p: no other session holds it. *)
RowLockFree(p, t) == score_lock[t] \in {0, p}

(* The team whose scores row the call locks: its argument, or for an undo the
   team of the action it found. *)
LockTeam(p) ==
    IF call[p].op = "undo" THEN score_actions[txn[p].v_action].team ELSE call[p].team

(* The statement waits until the row is free, locks it and reads the latest
   committed score; for a team that has no row it finds nothing and the
   function returns 'Team not found'. *)
LockScoreRow(p) ==
    /\ pc[p] = "lock"
    /\ IF LockTeam(p) \notin Teams
         THEN /\ Finish(p, Failure(ErrTeamNotFound))
         ELSE /\ RowLockFree(p, LockTeam(p))
              /\ score_lock' = [score_lock EXCEPT ![LockTeam(p)] = p]
              /\ txn' = [txn EXCEPT ![p].v_prev_score = scores[LockTeam(p)]]
              /\ pc' = [pc EXCEPT ![p] = "locked"]
              /\ UNCHANGED <<call, result, action_locks>>
    /\ UNCHANGED <<scores, score_actions, now, ncalls>>
    /\ UNCHANGED page_vars

----------------------------------------------------------------------------
(* increment_team, from the UPDATE to the RETURN *)

IncrementNewScore(v_prev_score, v_amount) == v_prev_score + v_amount

increment_team(p) ==
    /\ pc[p] = "locked"
    /\ call[p].op = "increment"
    /\ LET p_team == call[p].team
           v_amount == ClampAmount(call[p].amount)
           v_prev_score == txn[p].v_prev_score
           v_new_score == IncrementNewScore(v_prev_score, v_amount)
       IN  /\ scores' = [scores EXCEPT ![p_team] = v_new_score]
           /\ score_actions' = Append(score_actions,
                  ActionRow(p_team, v_amount, v_prev_score, v_new_score,
                            call[p].client, "increment", NULL, call[p].tnow))
           /\ Finish(p, Success(p_team, v_prev_score, v_new_score,
                                Len(score_actions) + 1))
    /\ UNCHANGED <<now, ncalls>>
    /\ UNCHANGED page_vars

----------------------------------------------------------------------------
(* decrement_team, from the floor computation to the RETURN *)

DecrementNoFloor(v_prev_score, v_amount) == v_prev_score - v_amount

DecrementNewScore(v_prev_score, v_amount) == GREATEST(v_prev_score - v_amount, 0)

DecrementLogsRequested(v_amount, v_actual_delta) == -v_amount

(* The delta column of the decrement row. *)
DecrementLoggedDelta(v_amount, v_actual_delta) == -v_actual_delta

DecrementAlwaysWrites(v_actual_delta) == FALSE

(* IF v_actual_delta = 0: nothing to decrement. *)
DecrementIsNoOp(v_actual_delta) == v_actual_delta = 0

decrement_team(p) ==
    /\ pc[p] = "locked"
    /\ call[p].op = "decrement"
    /\ LET p_team == call[p].team
           v_amount == ClampAmount(call[p].amount)
           v_prev_score == txn[p].v_prev_score
           v_new_score == DecrementNewScore(v_prev_score, v_amount)
           v_actual_delta == v_prev_score - v_new_score
       IN  IF DecrementIsNoOp(v_actual_delta)
             THEN /\ Finish(p, Failure(ErrAlreadyAtZero))
                  /\ UNCHANGED <<scores, score_actions>>
             ELSE /\ scores' = [scores EXCEPT ![p_team] = v_new_score]
                  /\ score_actions' = Append(score_actions,
                         ActionRow(p_team, DecrementLoggedDelta(v_amount, v_actual_delta),
                                   v_prev_score, v_new_score,
                                   call[p].client, "decrement", NULL, call[p].tnow))
                  /\ Finish(p, Success(p_team, v_prev_score, v_new_score,
                                       Len(score_actions) + 1))
    /\ UNCHANGED <<now, ncalls>>
    /\ UNCHANGED page_vars

----------------------------------------------------------------------------
(* reset_team, from the zero test to the RETURN *)

ResetAlwaysWrites(v_prev_score) == FALSE

(* IF v_prev_score = 0: nothing to reset. *)
ResetIsNoOp(v_prev_score) == v_prev_score = 0

reset_team(p) ==
    /\ pc[p] = "locked"
    /\ call[p].op = "reset"
    /\ LET p_team == call[p].team
           v_prev_score == txn[p].v_prev_score
       IN  IF ResetIsNoOp(v_prev_score)
             THEN /\ Finish(p, [NoResult EXCEPT !.success = TRUE, !.team = p_team,
                                                !.message = MsgAlreadyZero])
                  /\ UNCHANGED <<scores, score_actions>>
             ELSE /\ scores' = [scores EXCEPT ![p_team] = 0]
                  /\ score_actions' = Append(score_actions,
                         ActionRow(p_team, -v_prev_score, v_prev_score, 0,
                                   call[p].client, "reset", NULL, call[p].tnow))
                  /\ Finish(p, Success(p_team, v_prev_score, 0,
                                       Len(score_actions) + 1))
    /\ UNCHANGED <<now, ncalls>>
    /\ UNCHANGED page_vars

----------------------------------------------------------------------------
(* reset_all *)

(* The orders in which a query without ORDER BY can return the rows S. *)
Orders(S) ==
    {s \in [1..Cardinality(S) -> S] : \A i, j \in DOMAIN s : i # j => s[i] # s[j]}

ResetAllEveryRow(score) == TRUE

(* WHERE score > 0 *)
ResetAllWhere(score) == score > 0

(* FOR v_team IN SELECT team, score FROM scores WHERE score > 0 FOR UPDATE:
   the query starts, its snapshot fixes the rows it visits; their order is
   the order of the scan. *)
reset_all_scan(p) ==
    /\ pc[p] = "scan"
    /\ \E order \in Orders({t \in Teams : ResetAllWhere(scores[t])}) :
          txn' = [txn EXCEPT ![p].rows = order]
    /\ pc' = [pc EXCEPT ![p] = "lock_rows"]
    /\ UNCHANGED <<scores, score_actions, now, call, score_lock, action_locks,
                   result, ncalls>>
    /\ UNCHANGED page_vars

(* The query locks the next row it visits once the row is free, and returns the
   row's latest committed version if that still has score > 0. *)
reset_all_lock(p) ==
    /\ pc[p] = "lock_rows"
    /\ txn[p].rows # <<>>
    /\ LET t == Head(txn[p].rows)
       IN  /\ RowLockFree(p, t)
           /\ score_lock' = [score_lock EXCEPT ![t] = p]
           /\ txn' = [txn EXCEPT ![p].rows = Tail(@),
                                 ![p].got = IF ResetAllWhere(scores[t])
                                              THEN Append(@, [team |-> t, score |-> scores[t]])
                                              ELSE @]
    /\ UNCHANGED <<scores, score_actions, now, pc, call, action_locks, result, ncalls>>
    /\ UNCHANGED page_vars

(* The loop body for every row the query returned, then the RETURN. *)
reset_all(p) ==
    /\ pc[p] = "lock_rows"
    /\ txn[p].rows = <<>>
    /\ LET got == txn[p].got
           v_actions_created == Len(got)
       IN  /\ scores' = [t \in Teams |->
                            IF \E i \in DOMAIN got : got[i].team = t THEN 0 ELSE scores[t]]
           /\ score_actions' = score_actions \o
                  [i \in DOMAIN got |->
                      ActionRow(got[i].team, -got[i].score, got[i].score, 0,
                                call[p].client, "reset_all", NULL, call[p].tnow)]
           /\ Finish(p, [NoResult EXCEPT !.success = TRUE,
                                         !.teams_reset = v_actions_created])
    /\ UNCHANGED <<now, ncalls>>
    /\ UNCHANGED page_vars

----------------------------------------------------------------------------
(* undo_last_action *)

UndoWhereIgnoringUndone(i, p_client_id, tnow) ==
    /\ score_actions[i].client_id = p_client_id
    /\ score_actions[i].action_type # "undo"
    /\ score_actions[i].created_at > tnow - v_undo_window

UndoWhereIgnoringWindow(i, p_client_id, tnow) ==
    /\ score_actions[i].client_id = p_client_id
    /\ score_actions[i].undone = FALSE
    /\ score_actions[i].action_type # "undo"

UndoWhereIncludingUndo(i, p_client_id, tnow) ==
    /\ score_actions[i].client_id = p_client_id
    /\ score_actions[i].undone = FALSE
    /\ score_actions[i].created_at > tnow - v_undo_window

UndoWhereOfAnyClient(i, p_client_id, tnow) ==
    /\ score_actions[i].undone = FALSE
    /\ score_actions[i].action_type # "undo"
    /\ score_actions[i].created_at > tnow - v_undo_window

(* The undo query's WHERE clause, on the committed version of row i. *)
UndoWhere(i, p_client_id, tnow) ==
    /\ score_actions[i].client_id = p_client_id
    /\ score_actions[i].undone = FALSE
    /\ score_actions[i].action_type # "undo"
    /\ score_actions[i].created_at > tnow - v_undo_window

(* The rows the undo query's WHERE clause accepts. *)
Undoable(p_client_id, tnow) ==
    {i \in DOMAIN score_actions : UndoWhere(i, p_client_id, tnow)}

OldestFirst(S) ==
    {s \in Orders(S) :
        \A i, j \in DOMAIN s :
            i < j => score_actions[s[i]].created_at <= score_actions[s[j]].created_at}

(* ORDER BY created_at DESC: rows of equal created_at come in any order. *)
NewestFirst(S) ==
    {s \in Orders(S) :
        \A i, j \in DOMAIN s :
            i < j => score_actions[s[i]].created_at >= score_actions[s[j]].created_at}

(* The undo query starts: its snapshot fixes the rows it visits, newest first. *)
undo_select(p) ==
    /\ pc[p] = "select"
    /\ \E order \in NewestFirst(Undoable(call[p].client, call[p].tnow)) :
          txn' = [txn EXCEPT ![p].cands = order]
    /\ pc' = [pc EXCEPT ![p] = "lock_action"]
    /\ UNCHANGED <<scores, score_actions, now, call, score_lock, action_locks,
                   result, ncalls>>
    /\ UNCHANGED page_vars

(* No other session holds the lock of score_actions row i. *)
ActionLockFree(p, i) == \A q \in Procs \ {p} : i \notin action_locks[q]

(* LIMIT 1 FOR UPDATE: the query locks the newest row once it is free; if the
   row's latest committed version fails the WHERE clause (it was undone
   meanwhile) the row is skipped and the next one is tried; with no row left
   the function returns 'No undoable action found'. *)
undo_lock_action(p) ==
    /\ pc[p] = "lock_action"
    /\ IF txn[p].cands = <<>>
         THEN /\ Finish(p, Failure(ErrNoUndoable))
         ELSE LET i == Head(txn[p].cands)
              IN  /\ ActionLockFree(p, i)
                  /\ action_locks' = [action_locks EXCEPT ![p] = @ \cup {i}]
                  /\ IF UndoWhere(i, call[p].client, call[p].tnow)
                       THEN /\ txn' = [txn EXCEPT ![p].cands = <<>>, ![p].v_action = i]
                            /\ pc' = [pc EXCEPT ![p] = "lock"]
                       ELSE /\ txn' = [txn EXCEPT ![p].cands = Tail(@)]
                            /\ pc' = pc
                  /\ UNCHANGED <<call, result, score_lock>>
    /\ UNCHANGED <<scores, score_actions, now, ncalls>>
    /\ UNCHANGED page_vars

UndoNewScoreAdding(v_current_score, delta) == GREATEST(v_current_score + delta, 0)

(* v_new_score := GREATEST(v_current_score - v_action.delta, 0) *)
UndoNewScore(v_current_score, delta) == GREATEST(v_current_score - delta, 0)

UndoLogsSameDelta(delta, v_current_score, v_new_score) == delta

(* The delta column of the undo row. *)
UndoLoggedDelta(delta, v_current_score, v_new_score) == -delta

(* From the computation of the new score to the RETURN. *)
undo_last_action(p) ==
    /\ pc[p] = "locked"
    /\ call[p].op = "undo"
    /\ LET id == txn[p].v_action
           v_action == score_actions[id]
           v_current_score == txn[p].v_prev_score
           v_new_score == UndoNewScore(v_current_score, v_action.delta)
           marked == [score_actions EXCEPT ![id].undone = TRUE,
                                           ![id].undone_at = call[p].tnow]
       IN  /\ scores' = [scores EXCEPT ![v_action.team] = v_new_score]
           /\ score_actions' = Append(marked,
                  ActionRow(v_action.team,
                            UndoLoggedDelta(v_action.delta, v_current_score, v_new_score),
                            v_current_score, v_new_score,
                            call[p].client, "undo", id, call[p].tnow))
           /\ Finish(p, [Success(v_action.team, v_current_score, v_new_score, NULL)
                           EXCEPT !.reverted_action_id = id,
                                  !.undo_action_id = Len(score_actions) + 1])
    /\ UNCHANGED <<now, ncalls>>
    /\ UNCHANGED page_vars

----------------------------------------------------------------------------
(* The database's deadlock detector *)

(* The session whose row lock session p waits for, 0 if p does not wait. *)
WaitsFor(p) ==
    CASE pc[p] = "lock" /\ LockTeam(p) \in Teams /\ ~RowLockFree(p, LockTeam(p)) ->
            score_lock[LockTeam(p)]
      [] pc[p] = "lock_rows" /\ txn[p].rows # <<>> /\ ~RowLockFree(p, Head(txn[p].rows)) ->
            score_lock[Head(txn[p].rows)]
      [] pc[p] = "lock_action" /\ txn[p].cands # <<>>
            /\ ~ActionLockFree(p, Head(txn[p].cands)) ->
            CHOOSE q \in Procs \ {p} : Head(txn[p].cands) \in action_locks[q]
      [] OTHER -> 0

RECURSIVE WaitChain(_, _, _)
(* Following the waits from session q for at most n steps reaches session p. *)
WaitChain(q, p, n) ==
    /\ n > 0
    /\ WaitsFor(q) # 0
    /\ \/ WaitsFor(q) = p
       \/ WaitChain(WaitsFor(q), p, n - 1)

Deadlocked(p) == WaitChain(p, p, Cardinality(Procs))

NoDeadlockDetector(p) == FALSE

(* A session that waits in a cycle is aborted: its transaction is rolled back
   and the call fails with the database's error. *)
DeadlockAbort(p) ==
    /\ Deadlocked(p)
    /\ Finish(p, Failure(ErrDeadlock))
    /\ UNCHANGED <<scores, score_actions, now, ncalls>>
    /\ UNCHANGED page_vars

----------------------------------------------------------------------------
(* The clock *)

(* d seconds pass, up to the time max. *)
Tick(d, max) ==
    /\ now + d <= max
    /\ now' = now + d
    /\ UNCHANGED <<scores, score_actions, pc, call, txn, score_lock, action_locks,
                   result, ncalls>>
    /\ UNCHANGED page_vars

----------------------------------------------------------------------------
(* The calls a session can begin, with arguments from the given sets *)

BeginAny(p, cs, ts, as) ==
    \/ \E c \in cs, t \in ts, a \in as : Begin(p, "increment", c, t, a)
    \/ \E c \in cs, t \in ts, a \in as : Begin(p, "decrement", c, t, a)
    \/ \E c \in cs, t \in ts : Begin(p, "reset", c, t, 0)
    \/ \E c \in cs : Begin(p, "reset_all", c, NoTeam, 0)
    \/ \E c \in cs : Begin(p, "undo", c, NoTeam, 0)

(* The statements of a running call *)
Step(p) ==
    \/ LockScoreRow(p)
    \/ increment_team(p)
    \/ decrement_team(p)
    \/ reset_team(p)
    \/ reset_all_scan(p)
    \/ reset_all_lock(p)
    \/ reset_all(p)
    \/ undo_select(p)
    \/ undo_lock_action(p)
    \/ undo_last_action(p)

RECURSIVE Sum(_, _)
Sum(f, S) == IF S = {} THEN 0 ELSE LET x == CHOOSE y \in S : TRUE IN f[x] + Sum(f, S \ {x})

TotalCalls == Sum(ncalls, AllClients)

----------------------------------------------------------------------------
(* Spec: two sessions run the calls of two clients concurrently, in any
   interleaving of their statements; the clock stands still, so every logged
   action stays inside both windows. *)

Clients == {"c1", "c2"}
TeamArgs == {"blue", "green"}
Amounts == {1, 2}

Next ==
    \/ \E p \in {1, 2} : TotalCalls < MaxCalls /\ BeginAny(p, Clients, TeamArgs, Amounts)
    \/ \E p \in Procs : Step(p)

Spec == Init /\ [][Next]_vars

----------------------------------------------------------------------------
(* SpecInc: each of the three sessions runs one increment_team call of
   amount 1, for its own client, all on the same team, in any interleaving. *)

ClientOf(p) == CASE p = 1 -> "c1" [] p = 2 -> "c2" [] OTHER -> "c3"

(* The team the increments so far are on, if any. *)
SameTeam(t) == \A q \in Procs : call[q].team \in {NoTeam, t}

NextInc ==
    \/ \E p \in Procs, t \in Teams :
          /\ ncalls[ClientOf(p)] = 0
          /\ SameTeam(t)
          /\ \A i \in DOMAIN score_actions : score_actions[i].team = t
          /\ Begin(p, "increment", ClientOf(p), t, 1)
    \/ \E p \in Procs : LockScoreRow(p)
    \/ \E p \in Procs : increment_team(p)

SpecInc == Init /\ [][NextInc]_vars

----------------------------------------------------------------------------
(* SpecAmounts: one session runs the calls of one client one after another,
   with amounts below, inside and above the range 1..100. *)

AmountArgs == {-5, 0, 1, 7, 100, 101, 250}

NextAmounts ==
    \/ /\ TotalCalls < MaxCalls
       /\ \/ \E a \in AmountArgs : Begin(1, "increment", "c1", "blue", a)
          \/ \E a \in AmountArgs : Begin(1, "decrement", "c1", "blue", a)
          \/ Begin(1, "reset", "c1", "blue", 0)
    \/ LockScoreRow(1)
    \/ increment_team(1)
    \/ decrement_team(1)
    \/ reset_team(1)

SpecAmounts == Init /\ [][NextAmounts]_vars

----------------------------------------------------------------------------
(* SpecRate: one session runs up to MaxRateCalls calls of one client one after
   another, while the clock can pass the rate limit window. *)

NextRate ==
    \/ TotalCalls < MaxRateCalls /\ BeginAny(1, {"c1"}, {"blue"}, {1})
    \/ Step(1)
    \/ Tick(rate_limit_window, MaxRateTime)

SpecRate == Init /\ [][NextRate]_vars

----------------------------------------------------------------------------
(* SpecUndo: one session runs the calls of two clients one after another,
   while the clock can pass the undo window. *)

UndoTickSteps == {30}

NextUndo ==
    \/ TotalCalls < MaxCalls /\ BeginAny(1, Clients, {"blue"}, Amounts)
    \/ Step(1)
    \/ \E d \in UndoTickSteps : Tick(d, MaxTime)

SpecUndo == Init /\ [][NextUndo]_vars

----------------------------------------------------------------------------
(* SpecResetAll: one session runs the calls of one client one after another:
   increments of any of the four teams, and reset_all. *)

ResetAmounts == {3, 5}

NextResetAll ==
    \/ /\ TotalCalls < MaxCalls
       /\ \/ \E t \in Teams, a \in ResetAmounts : Begin(1, "increment", "c1", t, a)
          \/ Begin(1, "reset_all", "c1", NoTeam, 0)
    \/ LockScoreRow(1)
    \/ increment_team(1)
    \/ reset_all_scan(1)
    \/ reset_all_lock(1)
    \/ reset_all(1)

SpecResetAll == Init /\ [][NextResetAll]_vars

----------------------------------------------------------------------------
(* SpecLimited: one client runs up to MaxLimitedCalls calls within one rate
   limit window (the clock stands still): any call, also on a team that does
   not exist, in session 1, and undo calls in session 2, which can overlap with
   those of session 1 and so pass the rate limit check together with them. *)

LimitedTeamArgs == {"blue", "purple"}

NextLimited ==
    \/ TotalCalls < MaxLimitedCalls /\ BeginAny(1, {"c1"}, LimitedTeamArgs, {1})
    \/ TotalCalls < MaxLimitedCalls /\ Begin(2, "undo", "c1", NoTeam, 0)
    \/ \E p \in Procs : Step(p)

SpecLimited == Init /\ [][NextLimited]_vars

----------------------------------------------------------------------------
(* SpecScenario: one session runs up to MaxScenarioCalls calls of client c1 on
   team blue one after another (increment, decrement, undo), and the clock
   moves on by a second at a time, so later calls can get a later NOW(). *)

ScenarioAmounts == {1, 5, 10}

NextScenario ==
    \/ /\ TotalCalls < MaxScenarioCalls
       /\ \/ \E a \in ScenarioAmounts : Begin(1, "increment", "c1", "blue", a)
          \/ \E a \in ScenarioAmounts : Begin(1, "decrement", "c1", "blue", a)
          \/ Begin(1, "undo", "c1", NoTeam, 0)
    \/ LockScoreRow(1)
    \/ increment_team(1)
    \/ decrement_team(1)
    \/ undo_select(1)
    \/ undo_lock_action(1)
    \/ undo_last_action(1)
    \/ Tick(1, MaxScenarioTime)

SpecScenario == Init /\ [][NextScenario]_vars

----------------------------------------------------------------------------
(* SpecLocks: two sessions run up to MaxLockCalls calls of one client on two
   teams concurrently, in any interleaving; a session that waits in a cycle
   of row locks is aborted by the database's deadlock detector.  A session
   that can run its next statement eventually runs it, and the detector
   eventually acts on a cycle. *)

LockTeamArgs == {"blue", "green"}

NextLocks ==
    \/ \E p \in {1, 2} : TotalCalls < MaxLockCalls /\ BeginAny(p, {"c1"}, LockTeamArgs, {1})
    \/ \E p \in Procs : Step(p)
    \/ \E p \in Procs : DeadlockAbort(p)

SpecLocks ==
    /\ Init
    /\ [][NextLocks]_vars
    /\ \A p \in Procs : WF_vars(Step(p))
    /\ \A p \in Procs : WF_vars(DeadlockAbort(p))

----------------------------------------------------------------------------
(* SpecWindow: one session runs up to MaxWindowCalls calls of client c1 one
   after another: increments of any of the four teams, and reset_all; between
   the calls the clock can move on in steps of half a rate limit window. *)

WindowTickSteps == {5}

NextWindow ==
    \/ /\ TotalCalls < MaxWindowCalls
       /\ \/ \E t \in Teams : Begin(1, "increment", "c1", t, 1)
          \/ Begin(1, "reset_all", "c1", NoTeam, 0)
    \/ LockScoreRow(1)
    \/ increment_team(1)
    \/ reset_all_scan(1)
    \/ reset_all_lock(1)
    \/ reset_all(1)
    \/ \E d \in WindowTickSteps : pc[1] = "idle" /\ Tick(d, MaxWindowTime)

SpecWindow == Init /\ [][NextWindow]_vars

----------------------------------------------------------------------------
(* The page (app/page.tsx) and the realtime service that feeds it *)

MaxPageCalls == 2
MaxPageTime == 60

(* clientIdRef.current: the client id of the browser that shows the page *)
clientId == "c1"

(* .limit(20) of the history query, .slice(0, 20) of the INSERT handler *)
ActionsLimit == 20

(* The age in seconds below which the page offers a row for undo (60000 ms) *)
UndoableAge == 60

(* A row of score_actions as the page receives it, with its id. *)
PageRow(i, row) == [f \in DOMAIN row \cup {"id"} |-> IF f = "id" THEN i ELSE row[f]]

FirstRows(s, n) == SubSeq(s, 1, LEAST(Len(s), n))

(* supabase.from('scores').select('*') runs on the server: the reply holds
   the scores committed at that moment. *)
fetch_scores_query ==
    /\ fetch.pc = "scores_query"
    /\ fetch' = [pc |-> "scores_reply", data |-> scores]
    /\ UNCHANGED <<page_scores, page_actions, subscribed, channel, wal_pos, dropped>>
    /\ UNCHANGED <<scores, score_actions, now, pc, call, txn, score_lock, action_locks,
                   result, ncalls>>

(* The reply arrives: setScores(scoresMap) replaces the page's scores by the
   fetched ones, and the history query is sent. *)
fetch_scores_reply ==
    /\ fetch.pc = "scores_reply"
    /\ page_scores' = [t \in Teams |-> fetch.data[t]]
    /\ fetch' = [pc |-> "actions_query", data |-> <<>>]
    /\ UNCHANGED <<page_actions, subscribed, channel, wal_pos, dropped>>
    /\ UNCHANGED <<scores, score_actions, now, pc, call, txn, score_lock, action_locks,
                   result, ncalls>>

(* .from('score_actions').select('*').order('created_at', desc).limit(20)
   runs on the server: the reply holds the 20 newest committed rows. *)
fetch_actions_query ==
    /\ fetch.pc = "actions_query"
    /\ \E order \in NewestFirst(DOMAIN score_actions) :
          fetch' = [pc |-> "actions_reply",
                    data |-> FirstRows([k \in DOMAIN order |->
                                           PageRow(order[k], score_actions[order[k]])],
                                       ActionsLimit)]
    /\ UNCHANGED <<page_scores, page_actions, subscribed, channel, wal_pos, dropped>>
    /\ UNCHANGED <<scores, score_actions, now, pc, call, txn, score_lock, action_locks,
                   result, ncalls>>

(* The reply arrives: setActions(actionsData) replaces the page's list, and
   setIsLoading(false) ends the fetch. *)
fetch_actions_reply ==
    /\ fetch.pc = "actions_reply"
    /\ page_actions' = fetch.data
    /\ fetch' = [pc |-> "done", data |-> <<>>]
    /\ UNCHANGED <<page_scores, subscribed, channel, wal_pos, dropped>>
    /\ UNCHANGED <<scores, score_actions, now, pc, call, txn, score_lock, action_locks,
                   result, ncalls>>

(* .subscribe() of the two channels has been acknowledged by the service. *)
Subscribe ==
    /\ ~subscribed
    /\ subscribed' = TRUE
    /\ UNCHANGED <<page_scores, page_actions, fetch, channel, wal_pos, dropped>>
    /\ UNCHANGED <<scores, score_actions, now, pc, call, txn, score_lock, action_locks,
                   result, ncalls>>

(* The changes the transaction committed with log row k, in the order of its
   statements: for an undo the UPDATE that marks the reverted row, then the
   UPDATE of the team's score and the INSERT of row k itself. *)
ChangesOf(k) ==
    LET row == score_actions[k]
        r == row.reverts_action_id
    IN  (IF row.action_type = "undo"
           THEN <<[table |-> "score_actions", event |-> "UPDATE",
                   new |-> PageRow(r, score_actions[r])]>>
           ELSE <<>>)
        \o <<[table |-> "scores", event |-> "UPDATE",
              new |-> [team |-> row.team, score |-> row.new_score]],
             [table |-> "score_actions", event |-> "INSERT",
              new |-> PageRow(k, [row EXCEPT !.undone = FALSE, !.undone_at = NULL])]>>

(* The realtime service reads the next committed changes and sends them to
   the page if its channels are joined. *)
Broadcast ==
    /\ wal_pos < Len(score_actions)
    /\ wal_pos' = wal_pos + 1
    /\ IF subscribed
         THEN channel' = channel \o ChangesOf(wal_pos + 1) /\ UNCHANGED dropped
         ELSE dropped' = dropped + Len(ChangesOf(wal_pos + 1)) /\ UNCHANGED channel
    /\ UNCHANGED <<page_scores, page_actions, fetch, subscribed>>
    /\ UNCHANGED <<scores, score_actions, now, pc, call, txn, score_lock, action_locks,
                   result, ncalls>>

(* scoresChannel: setScores(prev => ({...prev, [team]: score})) *)
OnScoresChange(payload) ==
    /\ page_scores' = [page_scores EXCEPT ![payload.new.team] = payload.new.score]
    /\ UNCHANGED page_actions

(* actionsChannel, INSERT: the new row goes on top, the list keeps 20 rows. *)
OnActionInsert(payload) ==
    /\ page_actions' = FirstRows(<<payload.new>> \o page_actions, ActionsLimit)
    /\ UNCHANGED page_scores

(* actionsChannel, UPDATE: the row of the same id in the list is replaced. *)
OnActionUpdate(payload) ==
    /\ page_actions' = [k \in DOMAIN page_actions |->
                           IF page_actions[k].id = payload.new.id THEN payload.new
                           ELSE page_actions[k]]
    /\ UNCHANGED page_scores

(* The page handles the next payload of its channels. *)
Deliver ==
    /\ channel # <<>>
    /\ LET payload == Head(channel)
       IN  CASE payload.table = "scores" -> OnScoresChange(payload)
             [] payload.table = "score_actions" /\ payload.event = "INSERT" ->
                    OnActionInsert(payload)
             [] OTHER -> OnActionUpdate(payload)
    /\ channel' = Tail(channel)
    /\ UNCHANGED <<fetch, subscribed, wal_pos, dropped>>
    /\ UNCHANGED <<scores, score_actions, now, pc, call, txn, score_lock, action_locks,
                   result, ncalls>>

(* The Undo button is enabled when the list holds a row of this client that
   is not undone, is not an undo, and is less than 60 seconds old. *)
hasUndoableAction ==
    \E k \in DOMAIN page_actions :
        LET a == page_actions[k]
        IN  /\ a.client_id = clientId
            /\ ~a.undone
            /\ a.action_type # "undo"
            /\ now - a.created_at < UndoableAge

(* SpecPage: the page loads while one session runs up to MaxPageCalls calls
   of the page's client one after another: increments of blue by 1, and
   undos; between the calls the clock can move on in steps of 30 seconds. *)

PageTickSteps == {30}

NextPage ==
    \/ /\ TotalCalls < MaxPageCalls
       /\ \/ Begin(1, "increment", clientId, "blue", 1)
          \/ Begin(1, "undo", clientId, NoTeam, 0)
    \/ LockScoreRow(1)
    \/ increment_team(1)
    \/ undo_select(1)
    \/ undo_lock_action(1)
    \/ undo_last_action(1)
    \/ \E d \in PageTickSteps : pc[1] = "idle" /\ Tick(d, MaxPageTime)
    \/ fetch_scores_query
    \/ fetch_scores_reply
    \/ fetch_actions_query
    \/ fetch_actions_reply
    \/ Subscribe
    \/ Broadcast
    \/ Deliver

SpecPage == Init /\ [][NextPage]_vars

----------------------------------------------------------------------------
(* Properties of the concurrent sessions (Spec) *)

Rows == DOMAIN score_actions

RowsOf(type) == {i \in Rows : score_actions[i].action_type = type}

RECURSIVE SumDeltas(_, _)
(* The sum of the delta column over the first n rows logged for team t. *)
SumDeltas(t, n) ==
    IF n = 0 THEN 0
    ELSE SumDeltas(t, n - 1) + (IF score_actions[n].team = t THEN score_actions[n].delta ELSE 0)

(* An undo whose inverse was cut by the floor at 0. *)
FlooredUndo(i) ==
    /\ score_actions[i].action_type = "undo"
    /\ score_actions[i].new_score = 0
    /\ score_actions[i].prev_score - score_actions[score_actions[i].reverts_action_id].delta < 0

(* C1: in every reachable state every team's score is >= 0. *)
ScoresNonNegative == \A t \in Teams : scores[t] >= 0

(* C1 witness: an undo was floored at 0 and its team's score is 0. *)
FloorWasHit == \E i \in Rows : FlooredUndo(i) /\ scores[score_actions[i].team] = 0

(* C2: every team's score is the seed 0 plus the sum of the deltas logged for
   it, undo rows included. *)
ReplayInvariant == \A t \in Teams : scores[t] = SumDeltas(t, Len(score_actions))

(* C4: every undo row stores the change applied to the score:
   delta = new_score - prev_score. *)
UndoRowStoresAppliedDelta ==
    \A i \in RowsOf("undo") :
        score_actions[i].delta = score_actions[i].new_score - score_actions[i].prev_score

(* No row is referenced by two undo rows. *)
NoDoubleUndo ==
    \A i, j \in RowsOf("undo") :
        i # j => score_actions[i].reverts_action_id # score_actions[j].reverts_action_id

(* Session p's undo call ends in this step. *)
UndoEnds(p) == call[p].op = "undo" /\ call'[p].op = "none"

(* C6: no row is ever reverted by more than one undo row, also when undo calls
   of one client overlap, and an undo call that ends while its client has no
   undoable row fails with 'No undoable action found' and writes nothing. *)
UndoAtMostOnce ==
    [][/\ NoDoubleUndo'
       /\ \A p \in Procs :
             UndoEnds(p) /\ Undoable(call[p].client, call[p].tnow) = {}
                => /\ result' = Failure(ErrNoUndoable)
                   /\ UNCHANGED <<scores, score_actions>>]_vars

(* C6 witness: an overlapping undo call got the lock of the row it had
   selected, found it undone by the other call and skipped it. *)
SecondUndoFindsRowUndone ==
    \E p \in Procs :
        /\ pc[p] = "lock_action"
        /\ \E i \in action_locks[p] : score_actions[i].undone

----------------------------------------------------------------------------
(* Properties of the overlapping increments (SpecInc) *)

(* The calls that have returned. *)
EndedCalls == TotalCalls - Cardinality({p \in Procs : pc[p] # "idle"})

IncrementRowsOf(t) == {i \in RowsOf("increment") : score_actions[i].team = t}

(* C3: when n of the overlapping increments of amount 1 have returned, the
   team's score is n above its initial 0 and the log holds n rows, all of
   them 'increment' rows of that team; so with all N returned, N and N. *)
NoLostUpdates ==
    /\ Len(score_actions) = EndedCalls
    /\ \A t \in Teams : scores[t] = Cardinality(IncrementRowsOf(t))
    /\ \E t \in Teams : Cardinality(IncrementRowsOf(t)) = EndedCalls

(* C3 witness: all three increments have returned and the team is at 3. *)
AllIncrementsReturned ==
    /\ EndedCalls = Cardinality(Procs)
    /\ \E t \in Teams : scores[t] = Cardinality(Procs) /\ Cardinality(IncrementRowsOf(t)) = Cardinality(Procs)

----------------------------------------------------------------------------
(* Properties of the rate limiter (SpecRate) *)

(* Client c begins a call in this step. *)
Begins(c) == ncalls'[c] = ncalls[c] + 1

(* The call begun in this step is over at once: no session takes it up. *)
Refused == pc' = pc /\ result' = Failure(ErrRateLimited)

(* C5 as stated: of the calls a client begins within one 10-second window
   exactly the first 5 are admitted, and the 6th is denied and changes neither
   a score nor the log. *)
SixthCallDenied ==
    [][\A c \in AllClients :
          Begins(c) /\ now < rate_limit_window
             => /\ Refused <=> ncalls'[c] > 5
                /\ Refused => UNCHANGED <<scores, score_actions>>]_vars

(* C5 amended: a call is denied exactly when its client has 5 or more log rows
   created within the trailing 10 seconds; the denied call is over at once and
   changes neither a score nor the log, any other call is taken up. *)
RateLimitCountsLoggedRows ==
    [][\A c \in AllClients :
          Begins(c)
             => LET recent == {i \in Rows : /\ score_actions[i].client_id = c
                                            /\ now - score_actions[i].created_at < 10}
                IN  IF Cardinality(recent) >= 5
                      THEN /\ Refused
                           /\ UNCHANGED <<scores, score_actions, call, txn,
                                          score_lock, action_locks>>
                      ELSE \E p \in Procs : pc[p] = "idle" /\ pc'[p] # "idle"]_vars

(* C5 witness: five calls of c1 logged one row each and its sixth call, within
   the same window, was denied. *)
SixthCallWasDenied ==
    /\ ncalls["c1"] = 6
    /\ Cardinality(RecentActions("c1", now)) = 5
    /\ result = Failure(ErrRateLimited)

----------------------------------------------------------------------------
(* Properties of undo and its window (SpecUndo) *)

(* Session p's undo call returns success in this step. *)
UndoSucceeds(p) == UndoEnds(p) /\ result'.success

Max0(x) == IF x > 0 THEN x ELSE 0

(* C7: a successful undo reverts a row of its client that is not undone, not
   an undo and less than 60 seconds old, and no such row is newer; it sets the
   team's score to max(current - delta, 0), marks that row and no other as
   undone, and appends one 'undo' row that references it. *)
UndoRevertsNewestEligible ==
    [][\A p \in Procs :
          UndoSucceeds(p)
             => LET c == call[p].client
                    eligible == {i \in Rows : /\ score_actions[i].client_id = c
                                              /\ ~score_actions[i].undone
                                              /\ score_actions[i].action_type # "undo"
                                              /\ call[p].tnow - score_actions[i].created_at < 60}
                    id == result'.reverted_action_id
                    r == score_actions[id]
                    new == score_actions'[Len(score_actions')]
                IN  /\ id \in eligible
                    /\ \A j \in eligible : score_actions[j].created_at <= r.created_at
                    /\ scores' = [scores EXCEPT ![r.team] = Max0(scores[r.team] - r.delta)]
                    /\ Len(score_actions') = Len(score_actions) + 1
                    /\ \A j \in Rows \ {id} : score_actions'[j] = score_actions[j]
                    /\ score_actions'[id].undone
                    /\ score_actions'[id] = [r EXCEPT !.undone = TRUE,
                                                      !.undone_at = score_actions'[id].undone_at]
                    /\ new.action_type = "undo"
                    /\ new.reverts_action_id = id
                    /\ new.client_id = c
                    /\ new.team = r.team]_vars

(* C7 witness: an undo reverted a row although an older row of the same client
   was eligible too. *)
UndoPassedOverOlderRow ==
    \E u \in RowsOf("undo") :
        LET r == score_actions[u].reverts_action_id
        IN  \E j \in Rows :
               /\ score_actions[j].client_id = score_actions[u].client_id
               /\ score_actions[j].action_type # "undo"
               /\ ~score_actions[j].undone
               /\ score_actions[j].created_at < score_actions[r].created_at
               /\ score_actions[u].created_at - score_actions[j].created_at < 60

(* C8: an undo call never reverts a row that was more than 60 seconds old when
   the call began, and when every row of its client that is neither undone nor
   an undo is that old, the call fails with 'No undoable action found' and
   writes nothing. *)
OldActionsAreNotUndone ==
    [][\A p \in Procs :
          UndoEnds(p)
             => LET c == call[p].client
                    old == {i \in Rows : call[p].tnow - score_actions[i].created_at > 60}
                    live == {i \in Rows : /\ score_actions[i].client_id = c
                                          /\ ~score_actions[i].undone
                                          /\ score_actions[i].action_type # "undo"}
                IN  /\ \A i \in old : /\ score_actions'[i] = score_actions[i]
                                      /\ result'.reverted_action_id # i
                    /\ live \subseteq old
                          => /\ result' = Failure(ErrNoUndoable)
                             /\ UNCHANGED <<scores, score_actions>>]_vars

(* C8 witness: both clients have a row, every row is more than 60 seconds old
   and none is undone, and the last call, an undo, failed. *)
UndoRefusedOldAction ==
    /\ result = Failure(ErrNoUndoable)
    /\ \A c \in Clients : \E i \in Rows : score_actions[i].client_id = c
    /\ \A i \in Rows : /\ ~score_actions[i].undone
                       /\ score_actions[i].action_type # "undo"
                       /\ now - score_actions[i].created_at > 60

----------------------------------------------------------------------------
(* Properties of the amounts (SpecAmounts) *)

(* The amount the claims expect to be applied for a requested amount a. *)
Expected(a) == IF a > 100 THEN 100 ELSE IF a < 1 THEN 1 ELSE a

(* Session p's call of function op, past its row lock, returns in this step. *)
Returns(p, op) == call[p].op = op /\ pc[p] = "locked" /\ call'[p].op = "none"

(* C9: increment_team raises the score by the requested amount clamped to
   1..100, logs that amount as the delta of one 'increment' row, and reports
   prev_score and new_score = prev_score + clamped amount. *)
IncrementAddsClampedAmount ==
    [][\A p \in Procs :
          Returns(p, "increment")
             => LET t == call[p].team
                    prev == scores[t]
                    inc == Expected(call[p].amount)
                IN  /\ scores' = [scores EXCEPT ![t] = prev + inc]
                    /\ score_actions' = Append(score_actions,
                          ActionRow(t, inc, prev, prev + inc, call[p].client,
                                    "increment", NULL, call[p].tnow))
                    /\ result'.success
                    /\ result'.team = t
                    /\ result'.prev_score = prev
                    /\ result'.new_score = prev + inc
                    /\ result'.action_id = Len(score_actions')]_vars

(* C9 witness: increments by 1, by an amount inside the range and by 100 have
   been logged, the last one just now. *)
IncrementsOfEveryClass ==
    /\ {1, 7, 100} \subseteq {score_actions[i].delta : i \in RowsOf("increment")}
    /\ result.success
    /\ result.action_id = Len(score_actions)

(* C10: decrement_team on a score > 0 sets it to max(score - clamped amount, 0)
   and logs one 'decrement' row whose delta is minus the actual decrease, which
   is at most the clamped amount. *)
DecrementLogsActualDecrease ==
    [][\A p \in Procs :
          Returns(p, "decrement") /\ scores[call[p].team] > 0
             => LET t == call[p].team
                    prev == scores[t]
                    new == Max0(prev - Expected(call[p].amount))
                IN  /\ scores' = [scores EXCEPT ![t] = new]
                    /\ score_actions' = Append(score_actions,
                          ActionRow(t, -(prev - new), prev, new, call[p].client,
                                    "decrement", NULL, call[p].tnow))
                    /\ prev - new <= Expected(call[p].amount)
                    /\ result'.success
                    /\ result'.prev_score = prev
                    /\ result'.new_score = new]_vars

(* C10 witness: a decrement was cut by the floor: it took the score to 0 from
   a value that is none of the clamped amounts 1, 7, 100. *)
DecrementWasFloored ==
    \E i \in RowsOf("decrement") :
        /\ score_actions[i].new_score = 0
        /\ score_actions[i].prev_score \notin {1, 7, 100}

----------------------------------------------------------------------------
(* Properties of the no-op cases (Spec) *)

(* C11: a decrement_team call that finds its team's score at 0 returns a
   failure with the error 'Score is already at 0', writes no log row and
   leaves every score unchanged. *)
DecrementAtZeroFails ==
    [][\A p \in Procs :
          Returns(p, "decrement") /\ scores[call[p].team] = 0
             => /\ ~result'.success
                /\ result'.error = "Score is already at 0"
                /\ UNCHANGED <<scores, score_actions>>]_vars

(* C11 witness: a decrement took a team to 0 and the next decrement of that
   team, the call that ended last, failed as a no-op. *)
DecrementAtZeroFailed ==
    /\ result = Failure(ErrAlreadyAtZero)
    /\ \E i \in RowsOf("decrement") :
          /\ score_actions[i].new_score = 0
          /\ scores[score_actions[i].team] = 0
          /\ i = Len(score_actions)

(* C12: reset_team on a team with score v > 0 sets the score to 0 and logs
   exactly one 'reset' row with delta -v, prev_score v, new_score 0; on a team
   already at 0 it returns success with a message, writes no log row and
   changes no score. *)
ResetTeamContract ==
    [][\A p \in Procs :
          Returns(p, "reset")
             => LET t == call[p].team
                    v == scores[t]
                IN  IF v > 0
                      THEN /\ scores' = [scores EXCEPT ![t] = 0]
                           /\ score_actions' = Append(score_actions,
                                 ActionRow(t, -v, v, 0, call[p].client, "reset",
                                           NULL, call[p].tnow))
                           /\ result'.success
                           /\ result'.message = ""
                      ELSE /\ result'.success
                           /\ result'.message # ""
                           /\ result'.error = ""
                           /\ UNCHANGED <<scores, score_actions>>]_vars

(* C12 witness: a reset of a team above 0 was logged and a later reset of
   that team, the call that ended last, found it at 0. *)
ResetOfZeroTeamSucceeded ==
    /\ result.success
    /\ result.message = MsgAlreadyZero
    /\ \E i \in RowsOf("reset") :
          /\ score_actions[i].team = result.team
          /\ score_actions[i].prev_score > 0
          /\ score_actions[i].delta = -score_actions[i].prev_score

----------------------------------------------------------------------------
(* Properties of reset_all (SpecResetAll) *)

(* Session p's reset_all call returns in this step. *)
ResetAllReturns(p) == call[p].op = "reset_all" /\ call'[p].op = "none"

(* The rows appended to the log in this step. *)
NewRows == (Len(score_actions) + 1) .. Len(score_actions')

(* C13: reset_all sets every team with score > 0 to 0, appends exactly one
   'reset_all' row (delta = -previous score) for each such team and none for a
   team at 0, and returns teams_reset = the number of teams that were > 0;
   with no team > 0 it returns success with teams_reset = 0 and writes
   nothing. *)
ResetAllContract ==
    [][\A p \in Procs :
          ResetAllReturns(p)
             => LET positive == {t \in Teams : scores[t] > 0}
                IN  /\ scores' = [t \in Teams |-> 0]
                    /\ Len(score_actions') = Len(score_actions) + Cardinality(positive)
                    /\ \A i \in Rows : score_actions'[i] = score_actions[i]
                    /\ \A i \in NewRows : score_actions'[i].team \in positive
                    /\ \A t \in positive :
                          \E i \in NewRows :
                             score_actions'[i] =
                                ActionRow(t, -scores[t], scores[t], 0, call[p].client,
                                          "reset_all", NULL, call[p].tnow)
                    /\ result'.success
                    /\ result'.teams_reset = Cardinality(positive)
                    /\ positive = {} => UNCHANGED <<scores, score_actions>>]_vars

(* C13 witness: reset_all has reset two teams that had different scores and
   left the two teams at 0 without a row; it returned teams_reset = 2. *)
ResetAllResetTwoTeams ==
    /\ result.success
    /\ result.teams_reset = 2
    /\ Cardinality({score_actions[i].team : i \in RowsOf("reset_all")}) = 2
    /\ Cardinality({score_actions[i].delta : i \in RowsOf("reset_all")}) = 2
    /\ Cardinality(RowsOf("reset_all")) = 2
    /\ \A t \in Teams : scores[t] = 0

(* A reset_all that found no team above 0 returned teams_reset = 0. *)
ResetAllResetNothing ==
    /\ result.success
    /\ result.teams_reset = 0
    /\ score_actions = <<>>

----------------------------------------------------------------------------
(* Properties of the rate-limited client (SpecLimited) *)

(* C14: a call of a client that has 5 or more log rows created within the
   trailing 10 seconds returns the rate-limited failure, whichever operation
   it is and whatever its arguments (an unknown team, nothing to undo); it
   takes no row lock, writes nothing and runs no further statement. *)
LimitedCallDoesNothing ==
    [][\A c \in AllClients :
          /\ Begins(c)
          /\ Cardinality({i \in Rows : /\ score_actions[i].client_id = c
                                       /\ now - score_actions[i].created_at < 10}) >= 5
          => /\ ~result'.success
             /\ result'.error = "Rate limited. Please wait a few seconds."
             /\ UNCHANGED <<scores, score_actions, score_lock, action_locks,
                            pc, call, txn>>]_vars

(* C14 witness: the client's call was refused while it had 6 recent rows and
   none of them was undoable: three actions and the three undos of them. *)
RefusedWithNothingToUndo ==
    /\ result = Failure(ErrRateLimited)
    /\ Cardinality(RecentActions("c1", now)) = 6
    /\ Undoable("c1", now) = {}
    /\ \A p \in Procs : pc[p] = "idle"

(* A call ends in this step: session p's function returns, or a call is
   refused by the rate limit check as it begins. *)
CallEnds ==
    \/ \E p \in Procs : call[p].op # "none" /\ call'[p].op = "none"
    \/ \E c \in AllClients : Begins(c) /\ pc' = pc

(* C15: a call that returns a failure leaves every score and the whole log,
   undone flags included, unchanged; and increment_team, decrement_team and
   reset_team on a team that is not one of the four seeded teams return the
   failure 'Team not found'. *)
FailuresWriteNothing ==
    [][/\ CallEnds /\ ~result'.success => UNCHANGED <<scores, score_actions>>
       /\ \A p \in Procs :
             /\ call[p].op \in {"increment", "decrement", "reset"}
             /\ call[p].team \notin {"blue", "green", "yellow", "red"}
             /\ pc'[p] # pc[p]
             => /\ call'[p].op = "none"
                /\ ~result'.success
                /\ result'.error = "Team not found"]_vars

(* C15 witness: with a score above 0 and an undone row in the log, the call
   that ended last failed with 'Team not found'. *)
UnknownTeamWasRefused ==
    /\ result = Failure(ErrTeamNotFound)
    /\ \E t \in Teams : scores[t] > 0
    /\ \E i \in Rows : score_actions[i].undone

----------------------------------------------------------------------------
(* Properties of the commits (Spec) *)

(* Session p's call returns success in this step. *)
SuccessEnds(p) == call[p].op # "none" /\ call'[p].op = "none" /\ result'.success

(* The teams whose score this step changes. *)
ChangedTeams == {t \in Teams : scores'[t] # scores[t]}

(* The number of log rows the call of session p is to write when it succeeds. *)
ExpectedRows(p) ==
    CASE call[p].op = "reset" -> IF scores[call[p].team] > 0 THEN 1 ELSE 0
      [] call[p].op = "reset_all" -> Cardinality(ChangedTeams)
      [] OTHER -> 1

(* C16: a successful call commits its score write together with exactly the
   specified number of new log rows (1 for increment, decrement, undo and the
   reset of a team above 0, N for a reset_all that affects N teams, 0 for the
   reset of a team at 0); every new row records the score change committed
   with it, no score changes without a new row of its team, and nothing is
   written in a step in which no call succeeds. *)
AuditedMutation ==
    [][/\ Len(score_actions') >= Len(score_actions)
       /\ \A p \in Procs :
             SuccessEnds(p)
                => /\ Cardinality(NewRows) = ExpectedRows(p)
                   /\ call[p].op = "reset_all" => result'.teams_reset = Cardinality(NewRows)
       /\ \A i \in NewRows :
             /\ scores[score_actions'[i].team] = score_actions'[i].prev_score
             /\ scores'[score_actions'[i].team] = score_actions'[i].new_score
             /\ \A j \in NewRows : score_actions'[j].team = score_actions'[i].team => j = i
       /\ \A t \in ChangedTeams : \E i \in NewRows : score_actions'[i].team = t
       /\ (NewRows # {} \/ scores' # scores) => \E p \in Procs : SuccessEnds(p)]_vars

(* C16 witness: a reset_all that affected two teams has committed: both are at
   0, the log holds its two rows and it returned teams_reset = 2. *)
ResetAllCommittedTwoRows ==
    /\ result.success
    /\ result.teams_reset = 2
    /\ \E i, j \in RowsOf("reset_all") :
          /\ score_actions[i].team # score_actions[j].team
          /\ scores[score_actions[i].team] = 0
          /\ scores[score_actions[j].team] = 0

----------------------------------------------------------------------------
(* Properties of the scenario (SpecScenario) *)

(* The log after the scenario's increment 5 and decrement 10, the decrement
   logged at a later time than the increment. *)
AfterDecrement10 ==
    /\ Len(score_actions) = 2
    /\ score_actions[1] = ActionRow("blue", 5, 0, 5, "c1", "increment", NULL,
                                    score_actions[1].created_at)
    /\ score_actions[2] = ActionRow("blue", -5, 5, 0, "c1", "decrement", NULL,
                                    score_actions[2].created_at)
    /\ score_actions[1].created_at < score_actions[2].created_at
    /\ scores["blue"] = 0

(* C17: client c1, team blue at 0, calls in sequence: increment 5 gives score 5
   and a row with delta +5; decrement 10 gives score 0 and a row with delta -5;
   decrement 1 fails as a no-op without a new row; undo then reverts the
   decrement row: score 5 and a new 'undo' row with delta +5 whose
   reverts_action_id is the decrement row, which is marked undone. *)
ScenarioHolds ==
    [][/\ Returns(1, "increment") /\ score_actions = <<>> /\ call[1].amount = 5
          => /\ scores'["blue"] = 5
             /\ score_actions' = <<ActionRow("blue", 5, 0, 5, "c1", "increment",
                                             NULL, call[1].tnow)>>
       /\ /\ Returns(1, "decrement") /\ call[1].amount = 10
          /\ Len(score_actions) = 1 /\ score_actions[1].delta = 5
          => /\ scores'["blue"] = 0
             /\ score_actions' = Append(score_actions,
                   ActionRow("blue", -5, 5, 0, "c1", "decrement", NULL, call[1].tnow))
       /\ Returns(1, "decrement") /\ call[1].amount = 1 /\ AfterDecrement10
          => /\ result' = Failure(ErrAlreadyAtZero)
             /\ UNCHANGED <<scores, score_actions>>
       /\ UndoEnds(1) /\ AfterDecrement10
          => /\ result'.success
             /\ result'.reverted_action_id = 2
             /\ scores'["blue"] = 5
             /\ score_actions' = <<score_actions[1],
                                   [score_actions[2] EXCEPT !.undone = TRUE,
                                                            !.undone_at = call[1].tnow],
                                   ActionRow("blue", 5, 0, 5, "c1", "undo", 2,
                                             call[1].tnow)>>]_vars

(* C17 witness: the four calls of the scenario have run: the score is 5, the
   decrement row is undone and the undo row with delta +5 references it. *)
ScenarioWasRun ==
    /\ ncalls["c1"] = 4
    /\ scores["blue"] = 5
    /\ Len(score_actions) = 3
    /\ score_actions[1].action_type = "increment" /\ score_actions[1].delta = 5
    /\ score_actions[2].action_type = "decrement" /\ score_actions[2].delta = -5
    /\ score_actions[2].undone
    /\ score_actions[3].action_type = "undo" /\ score_actions[3].delta = 5
    /\ score_actions[3].reverts_action_id = 2
    /\ result.success /\ result.undo_action_id = 3

----------------------------------------------------------------------------
(* Properties of the log (Spec) *)

(* C18: every 'undo' row has a reverts_action_id that is the id of one earlier
   row whose action_type is not 'undo', and is never marked undone; the rows
   of the other four types have no reverts_action_id. *)
UndoRowsReferenceActions ==
    \A i \in Rows :
        IF score_actions[i].action_type = "undo"
          THEN /\ score_actions[i].reverts_action_id \in 1 .. (i - 1)
               /\ score_actions[score_actions[i].reverts_action_id].action_type # "undo"
               /\ ~score_actions[i].undone
               /\ score_actions[i].undone_at = NULL
          ELSE score_actions[i].reverts_action_id = NULL

(* C18 witness: client c1 made all three calls; the log holds its action,
   undone, and the undo row that references it, and its last undo call found
   nothing to revert: the undo row itself was not eligible. *)
UndoSkippedUndoRow ==
    /\ ncalls["c1"] = 3
    /\ result = Failure(ErrNoUndoable)
    /\ Len(score_actions) = 2
    /\ score_actions[1].undone
    /\ score_actions[2].action_type = "undo"
    /\ score_actions[2].reverts_action_id = 1
    /\ Undoable("c1", now) = {}

----------------------------------------------------------------------------
(* Properties of the log over time (SpecUndo) *)

(* C19: a row of the log is never deleted and its team, delta, prev_score,
   new_score, client_id, action_type, reverts_action_id and created_at never
   change; its undone flag and undone_at change at most once, together, from
   false/null to true/a time, and never again. *)
LogIsAppendMostly ==
    [][/\ Len(score_actions') >= Len(score_actions)
       /\ \A i \in Rows :
             LET old == score_actions[i]
                 new == score_actions'[i]
             IN  /\ [new EXCEPT !.undone = old.undone, !.undone_at = old.undone_at] = old
                 /\ old.undone => new = old
                 /\ ~old.undone => old.undone_at = NULL
                 /\ new # old => new.undone /\ new.undone_at # NULL]_vars

(* C19 witness: a row was marked undone 30 seconds after it was logged, and
   a later undo call, the call that ended last, found nothing and left it
   as it was. *)
UndoneRowStaysUndone ==
    /\ result = Failure(ErrNoUndoable)
    /\ \E i \in Rows :
          /\ score_actions[i].undone
          /\ score_actions[i].undone_at = score_actions[i].created_at + 30
          /\ now > score_actions[i].undone_at

----------------------------------------------------------------------------
(* Properties of the row locks (Spec) *)

(* Session p has read team t's score for the write it is about to make and has
   not committed yet. *)
InFlightOn(p, t) ==
    \/ pc[p] = "locked" /\ LockTeam(p) = t
    \/ pc[p] = "lock_rows" /\ \E i \in DOMAIN txn[p].got : txn[p].got[i].team = t

(* Session p commits in this step a call that was in flight on team t. *)
CommitsOn(p, t) == InFlightOn(p, t) /\ call'[p].op = "none"

(* C20: a call holds the row lock of a team from before it reads the team's
   score until its writes commit: a session in flight on a team holds that
   team's lock, so no two sessions are in flight on one team at a time, and a
   team's score is changed only by the commit of the session that holds its
   lock. *)
SameTeamSerialization ==
    [][/\ \A p \in Procs, t \in Teams : InFlightOn(p, t)' => score_lock'[t] = p
       /\ \A p, q \in Procs, t \in Teams : InFlightOn(p, t)' /\ InFlightOn(q, t)' => p = q
       /\ \A t \in ChangedTeams :
             \E p \in Procs : score_lock[t] = p /\ CommitsOn(p, t)]_vars

(* C20 witness: one session is in flight on a team while another waits for
   that team's row lock. *)
WriterWaitsForWriter ==
    \E p, q \in Procs :
        /\ p # q
        /\ pc[p] = "locked"
        /\ pc[q] = "lock"
        /\ LockTeam(q) = LockTeam(p)
        /\ score_lock[LockTeam(p)] = p

----------------------------------------------------------------------------
(* Properties of lock waits (SpecLocks) *)

(* C21: reset_all takes its row locks in one fixed order, so concurrent calls
   (two reset_all calls, or a reset_all and a single-team call or an undo)
   never wait on each other in a cycle. *)
NoCircularWait == \A p \in Procs : ~Deadlocked(p)

(* Some session runs a call. *)
SomeCallRuns == \E p \in Procs : pc[p] # "idle"

(* No session runs a call: every call begun so far has returned. *)
AllCallsReturned == \A p \in Procs : pc[p] = "idle"

(* C22: whatever calls run concurrently, there comes a time when all of them
   have returned, also those that wait for row locks held by other calls: no
   call is blocked forever; and a call that returns a failure has written
   nothing. *)
EveryCallCompletes ==
    /\ SomeCallRuns ~> AllCallsReturned
    /\ [][\A p \in Procs :
             call[p].op # "none" /\ call'[p].op = "none" /\ ~result'.success
                => UNCHANGED <<scores, score_actions>>]_vars

(* C22 witness: of two reset_all calls that waited for each other's row lock
   one was aborted, and the other holds both rows and can go on. *)
DeadlockWasBroken ==
    /\ result = Failure(ErrDeadlock)
    /\ \E p \in Procs :
          /\ call[p].op = "reset_all"
          /\ Cardinality({t \in Teams : score_lock[t] = p}) = 1
          /\ txn[p].rows # <<>>
          /\ RowLockFree(p, Head(txn[p].rows))

----------------------------------------------------------------------------
(* Properties of the log's chain of scores (Spec) *)

(* The rows of team t, in the order of their commits. *)
TeamRows(t) == {i \in Rows : score_actions[i].team = t}

(* The largest element of the non-empty set S of row ids. *)
Last(S) == CHOOSE i \in S : \A j \in S : j <= i

(* C23: for every team that has a log row, the new_score of its most recently
   committed row is the team's current score, and every row's prev_score is
   the new_score of the team's row committed before it, or the seed 0 for the
   team's first row. *)
LogChainContinuity ==
    /\ \A t \in Teams :
          TeamRows(t) # {} => score_actions[Last(TeamRows(t))].new_score = scores[t]
    /\ \A i \in Rows :
          LET earlier == {j \in TeamRows(score_actions[i].team) : j < i}
          IN  score_actions[i].prev_score =
                 IF earlier = {} THEN 0 ELSE score_actions[Last(earlier)].new_score

(* C23 witness: a team has three rows written by two clients, the last one an
   undo that was cut by the floor at 0. *)
ChainOfThreeRows ==
    \E t \in Teams :
        /\ Cardinality(TeamRows(t)) = 3
        /\ Cardinality({score_actions[i].client_id : i \in TeamRows(t)}) = 2
        /\ FlooredUndo(Last(TeamRows(t)))

----------------------------------------------------------------------------
(* Properties of an action and its undo (SpecUndo) *)

(* The newest row of the log is an increment, decrement or reset of client c,
   not undone, logged later than every other row of c and less than 60
   seconds before the time tnow: the call c ran last, with no mutation of any
   team since. *)
LastCallWas(c, tnow) ==
    /\ score_actions # <<>>
    /\ LET last == score_actions[Len(score_actions)]
       IN  /\ last.client_id = c
           /\ last.action_type \in {"increment", "decrement", "reset"}
           /\ ~last.undone
           /\ tnow - last.created_at < 60
           /\ \A i \in Rows \ {Len(score_actions)} :
                 score_actions[i].client_id = c
                    => score_actions[i].created_at < last.created_at

(* C24: when a client's successful increment_team, decrement_team (floored or
   not) or reset_team is followed by its undo_last_action within 60 seconds,
   with no other mutation of the team in between, the undo succeeds, reverts
   that action and the team's score is again what it was before the action. *)
UndoRoundTrip ==
    [][\A p \in Procs :
          UndoEnds(p) /\ LastCallWas(call[p].client, call[p].tnow)
             => LET last == score_actions[Len(score_actions)]
                IN  /\ result'.success
                    /\ result'.reverted_action_id = Len(score_actions)
                    /\ scores' = [scores EXCEPT ![last.team] = last.prev_score]
                    /\ result'.new_score = last.prev_score]_vars

(* C24 witness: a decrement that took the team from above 0 to 0 was undone
   by the next call: the score is back at its value before the decrement. *)
DecrementWasRolledBack ==
    \E u \in RowsOf("undo") :
        LET r == score_actions[u].reverts_action_id
        IN  /\ u = Len(score_actions)
            /\ r = u - 1
            /\ score_actions[r].action_type = "decrement"
            /\ score_actions[r].new_score = 0
            /\ score_actions[r].created_at > score_actions[1].created_at
            /\ scores[score_actions[r].team] = score_actions[r].prev_score

----------------------------------------------------------------------------
(* Properties of the undone flag (Spec) *)

(* The undo rows that reference row i. *)
UndosOf(i) == {u \in RowsOf("undo") : score_actions[u].reverts_action_id = i}

(* C25: in every committed state a row's undone flag is true if and only if
   exactly one 'undo' row references it (and no row is referenced by more than
   one), and its undone_at is set if and only if undone is true. *)
UndoneIffReferenced ==
    \A i \in Rows :
        /\ score_actions[i].undone <=> Cardinality(UndosOf(i)) = 1
        /\ Cardinality(UndosOf(i)) <= 1
        /\ score_actions[i].undone_at # NULL <=> score_actions[i].undone

(* C25 witness: of two actions of one client one is undone and referenced by
   the undo row, the other is neither. *)
OneOfTwoActionsUndone ==
    /\ Len(score_actions) = 3
    /\ \E i, j \in Rows :
          /\ score_actions[i].client_id = score_actions[j].client_id
          /\ score_actions[i].undone
          /\ UndosOf(i) = {3}
          /\ ~score_actions[j].undone
          /\ score_actions[j].action_type # "undo"
          /\ UndosOf(j) = {}

----------------------------------------------------------------------------
(* Properties of undo's frame (Spec) *)

(* C26: an undo_last_action call of client c changes no log row but the one
   it reverts, which is a row of c, and changes no score but that of the team
   named in that row; a call that finds nothing changes nothing. *)
UndoTouchesOwnRowOnly ==
    [][\A p \in Procs :
          UndoEnds(p)
             => IF result'.success
                  THEN LET id == result'.reverted_action_id
                       IN  /\ id \in Rows
                           /\ score_actions[id].client_id = call[p].client
                           /\ \A i \in Rows \ {id} : score_actions'[i] = score_actions[i]
                           /\ \A t \in Teams \ {score_actions[id].team} :
                                 scores'[t] = scores[t]
                           /\ \A i \in NewRows :
                                 /\ score_actions'[i].client_id = call[p].client
                                 /\ score_actions'[i].team = score_actions[id].team
                  ELSE UNCHANGED <<scores, score_actions>>]_vars

(* C26 witness: an undo of one client has reverted its action on one team and
   left alone the action of the other client on another team, whose score
   stands. *)
OtherClientsRowKept ==
    /\ Len(score_actions) = 3
    /\ score_actions[3].action_type = "undo"
    /\ \E i, j \in {1, 2} :
          /\ score_actions[3].reverts_action_id = i
          /\ score_actions[j].client_id # score_actions[i].client_id
          /\ score_actions[j].team # score_actions[i].team
          /\ ~score_actions[j].undone
          /\ scores[score_actions[j].team] = score_actions[j].new_score
          /\ scores[score_actions[j].team] > 0

----------------------------------------------------------------------------
(* Properties of the rate limit window (SpecWindow) *)

(* The rows of client c created within the 10 seconds up to now. *)
InWindow(c) ==
    {i \in Rows : /\ score_actions[i].client_id = c
                  /\ now - score_actions[i].created_at < 10}

(* C27 as stated: for calls that run one after another, no client ever has
   more than 5 log rows created within one trailing 10-second window,
   whichever operations wrote them. *)
AtMostFiveInWindow == \A c \in AllClients : Cardinality(InWindow(c)) <= 5

(* C27 amended: for calls that run one after another, a client has at most 8
   log rows created within one trailing 10-second window (the 4 that still
   admit a call plus one row per team of a reset_all), and more than 5 only
   when its newest row was written by reset_all. *)
WindowHoldsFourPlusLastCall ==
    \A c \in AllClients :
        /\ Cardinality(InWindow(c)) <= 8
        /\ Cardinality(InWindow(c)) > 5
              => score_actions[Last(InWindow(c))].action_type = "reset_all"

(* C27 witness: after four increments, one per team, the client's reset_all
   was admitted and wrote four rows: 8 rows in one window. *)
EightRowsInWindow ==
    /\ Cardinality(InWindow("c1")) = 8
    /\ Cardinality(RowsOf("reset_all")) = 4
    /\ result.teams_reset = 4

----------------------------------------------------------------------------
(* The frame of the single-team operations (Spec) *)

SingleTeamOps == {"increment", "decrement", "reset"}

(* C28: a successful increment_team, decrement_team or reset_team on team T
   changes only T's score and appends rows only for T: the scores of all other
   teams and all existing log rows are unchanged. *)
SingleTeamFrame ==
    [][\A p \in Procs :
          SuccessEnds(p) /\ call[p].op \in SingleTeamOps
             => /\ \A t \in Teams \ {call[p].team} : scores'[t] = scores[t]
                /\ Len(score_actions') >= Len(score_actions)
                /\ \A i \in Rows : score_actions'[i] = score_actions[i]
                /\ \A i \in NewRows : score_actions'[i].team = call[p].team]_vars

(* C28 witness: after an increment of blue and an increment of green, a
   reset_team of green has returned: blue's score and the two older rows are
   as they were, and the one new row is green's. *)
ResetLeftOtherTeamAlone ==
    /\ Len(score_actions) = 3
    /\ score_actions[1].team = "blue" /\ score_actions[1].action_type = "increment"
    /\ score_actions[2].team = "green" /\ score_actions[2].action_type = "increment"
    /\ score_actions[3].team = "green" /\ score_actions[3].action_type = "reset"
    /\ scores["blue"] = score_actions[1].new_score
    /\ scores["green"] = 0
    /\ \A i \in 1..2 : ~score_actions[i].undone
    /\ result.success /\ result.team = "green"
    /\ \A p \in Procs : pc[p] = "idle"

----------------------------------------------------------------------------
(* Properties of the page (SpecPage) *)

(* The fetch has resolved, every committed change has been broadcast and
   handled by the page, none was broadcast before the page had joined, and no
   call is running. *)
PageSettled ==
    /\ fetch.pc = "done"
    /\ wal_pos = Len(score_actions)
    /\ channel = <<>>
    /\ dropped = 0
    /\ \A p \in Procs : pc[p] = "idle"

(* C29: once the fetch has resolved and the events of all committed changes
   have been delivered, the score the page holds for each team is the
   server's committed score, whatever the interleaving of the fetch replies
   with the realtime events. *)
PageScoresConverge ==
    PageSettled => \A t \in Teams : page_scores[t] = scores[t]

(* C30: the Undo button is enabled exactly when undo_last_action would find
   an eligible row of this client (not undone, not an undo, created less than
   60 seconds ago). *)
UndoButtonMatchesServer ==
    PageSettled => (hasUndoableAction <=> Undoable(clientId, now) # {})

====
